---- MODULE Spec2Model ----
(***************************************************************************)
(* Model of the viewer-side projections of autonomous-researcher:          *)
(*   - StreamingMarkdown (frontend/src/components/StreamingMarkdown.tsx):  *)
(*     the effect that raises and lowers the "stream-fade--active" signal; *)
(*   - FindingsRail and MiniChart                                          *)
(*     (frontend/src/components/FindingsRail.tsx): the capped, sorted rail *)
(*     of insights and the chart geometry of one insight.                  *)
(* Three specifications share the variables; each leaves the variables of  *)
(* the other components at their initial values.                           *)
(***************************************************************************)
EXTENDS Integers, Sequences, FiniteSets, TLC

VARIABLES
    \* ---- StreamingMarkdown: props, hook state, the browser timer
    phase,          \* "new" (not rendered yet) | "mounted" | "unmounted"
    animateKey,     \* prop animateKey: <<>> when undefined, else <<k>>
    content,        \* prop content (a string)
    isUpdating,     \* useState(false)
    animatedRef,    \* useRef(false)
    prevKeyRef,     \* useRef(null): <<>> is null, else <<key>>
    prevContentRef, \* useRef("")
    timeout,        \* a window.setTimeout callback is pending
    cleanup,        \* the last effect run returned a cleanup closure
    hist,           \* observer: what the current identity has been through
    \* ---- FindingsRail
    agents,         \* prop agents, as the sequence Object.values(agents)
    added,          \* observer: insights appended since the initial map
    insights,       \* the const insights of FindingsRail: the rail
    \* ---- MiniChart
    chart,          \* prop chart
    drawn,          \* MiniChart has been rendered for chart
    view            \* what the render returned

streamVars == <<phase, animateKey, content, isUpdating, animatedRef,
                prevKeyRef, prevContentRef, timeout, cleanup, hist>>
railVars == <<agents, added, insights>>
chartVars == <<chart, drawn, view>>
vars == <<streamVars, railVars, chartVars>>

Max(a, b) == IF a >= b THEN a ELSE b
Min(a, b) == IF a <= b THEN a ELSE b

\* The rail and the chart while another component is the one observed.
NoChart == [hasSeries |-> FALSE, valuesIsArray |-> FALSE, values |-> <<>>,
            labelsIsArray |-> FALSE, labels |-> <<>>]
NullView == [null |-> TRUE, threw |-> FALSE]
RailIdle == agents = <<>> /\ added = 0 /\ insights = <<>>
ChartIdle == chart = NoChart /\ drawn = FALSE /\ view = NullView

(***************************************************************************)
(* StreamingMarkdown                                                       *)
(***************************************************************************)

\* Bounds of the inputs.
MaxContentLen == 3
MaxKeys == 2
MaxCount == 3

RECURSIVE Repeat(_, _)
Repeat(ch, n) == IF n = 0 THEN "" ELSE Repeat(ch, n - 1) \o ch

\* The texts a block is given: "", "a", "aa", ... and "b", "bb", ...
Contents == {Repeat("a", n) : n \in 0..MaxContentLen}
            \cup {Repeat("b", n) : n \in 1..MaxContentLen}

\* The animateKey prop: undefined, or a thought/step id.
AnimateKeys == {<<>>} \cup {<<"k" \o ToString(i)>> : i \in 1..MaxKeys}

\* const key = animateKey ?? content
Key(ak, c) == IF ak = <<>> THEN <<c>> ELSE ak

\* prevKeyRef.current !== key
KeyChanged(prev, key) == prev # key

\* content.length > 0, prevContentRef.current.length > 0
HasContent(c) == Len(c) > 0

\* Trigger with a plausible fault: "fades in whenever its content changes".
TriggerOnAnyContent(animated, hasContent, hadContent) == hasContent

\* if (!animatedRef.current && hasContent && !hadContent)
Trigger(animated, hasContent, hadContent) ==
    ~animated /\ hasContent /\ ~hadContent

\* MarkAnimated with a plausible fault: the assignment of line 41 left out.
MarkAnimatedForgotten(animated, trigger) == animated

\* animatedRef.current = true, inside the if
MarkAnimated(animated, trigger) == animated \/ trigger

\* The observer's record for an identity that starts being displayed with
\* text c: fired says whether this render's effect raised the signal.
NewIdentity(c, fired, rekeyed, prevHadText) ==
    [signals      |-> IF fired THEN 1 ELSE 0,
     rekeyed      |-> rekeyed,
     startedEmpty |-> c = "",
     grew         |-> TRUE,
     updates      |-> 0,
     hadText      |-> c # "",
     onFirstText  |-> fired /\ c # "",
     emptied      |-> FALSE,
     prevHadText  |-> prevHadText]

\* The observer's record after the same identity goes from text old to c.
SameIdentity(h, old, c, fired) ==
    [h EXCEPT !.signals = Min(MaxCount, @ + (IF fired THEN 1 ELSE 0)),
              !.grew = @ /\ Len(c) > Len(old),
              !.updates = Min(MaxCount, @ + 1),
              !.hadText = @ \/ c # "",
              !.onFirstText = @ \/ (fired /\ ~h.hadText /\ c # ""),
              !.emptied = @ \/ (h.signals > 0 /\ c = "")]

\* The useEffect callback of lines 28-46, run for the props (ak, c), after the
\* cleanup of the previous run (clearTimeout) when that run returned one.
Effect(ak, c) ==
    LET key == Key(ak, c)
        keyChanged == KeyChanged(prevKeyRef, key)
        animated == IF keyChanged THEN FALSE ELSE animatedRef
        hadContent == HasContent(prevContentRef)
        hasContent == HasContent(c)
        trigger == Trigger(animated, hasContent, hadContent)
    IN  /\ prevKeyRef' = key
        /\ prevContentRef' = c
        /\ animatedRef' = MarkAnimated(animated, trigger)
        /\ isUpdating' = (IF trigger THEN TRUE ELSE isUpdating)
        /\ timeout' = (trigger \/ (timeout /\ ~cleanup))
        /\ cleanup' = trigger
        /\ hist' = IF phase = "mounted" /\ ak = animateKey
                   THEN SameIdentity(hist, content, c, trigger)
                   ELSE NewIdentity(c, trigger, phase = "mounted",
                                    phase = "mounted" /\ content # "")

\* First render of the component with props (ak, c): the effect runs.
Mount(ak, c) ==
    /\ phase = "new"
    /\ phase' = "mounted"
    /\ animateKey' = ak
    /\ content' = c
    /\ Effect(ak, c)
    /\ UNCHANGED <<railVars, chartVars>>

\* The parent renders the mounted component with new props. The effect runs
\* again only when one of its dependencies [key, content] has changed.
Update(ak, c) ==
    /\ phase = "mounted"
    /\ <<ak, c>> # <<animateKey, content>>
    /\ animateKey' = ak
    /\ content' = c
    /\ phase' = phase
    /\ IF <<Key(ak, c), c>> # <<Key(animateKey, content), content>>
       THEN Effect(ak, c)
       ELSE /\ hist' = NewIdentity(c, FALSE, TRUE, content # "")
            /\ UNCHANGED <<isUpdating, animatedRef, prevKeyRef,
                           prevContentRef, timeout, cleanup>>
    /\ UNCHANGED <<railVars, chartVars>>

\* The callback of window.setTimeout(..., 420): setIsUpdating(false).
TimerFire ==
    /\ phase = "mounted"
    /\ timeout
    /\ isUpdating' = FALSE
    /\ timeout' = FALSE
    /\ UNCHANGED <<phase, animateKey, content, animatedRef, prevKeyRef,
                   prevContentRef, cleanup, hist>>
    /\ UNCHANGED <<railVars, chartVars>>

\* The component is removed: React runs the last effect's cleanup.
Unmount ==
    /\ phase = "mounted"
    /\ phase' = "unmounted"
    /\ timeout' = FALSE
    /\ cleanup' = FALSE
    /\ UNCHANGED <<animateKey, content, isUpdating, animatedRef, prevKeyRef,
                   prevContentRef, hist>>
    /\ UNCHANGED <<railVars, chartVars>>

StreamInit ==
    /\ phase = "new"
    /\ animateKey = <<>>
    /\ content = ""
    /\ isUpdating = FALSE
    /\ animatedRef = FALSE
    /\ prevKeyRef = <<>>
    /\ prevContentRef = ""
    /\ timeout = FALSE
    /\ cleanup = FALSE
    /\ hist = NewIdentity("", FALSE, FALSE, FALSE)

StreamNext ==
    \/ \E ak \in AnimateKeys, c \in Contents : Mount(ak, c)
    \/ \E ak \in AnimateKeys, c \in Contents : Update(ak, c)
    \/ TimerFire
    \/ Unmount

InitStream == StreamInit /\ RailIdle /\ ChartIdle

SpecStream == InitStream /\ [][StreamNext]_vars

\* The timer callback is a browser task: once set and not cleared, it runs.
FairSpecStream == SpecStream /\ WF_vars(TimerFire)

\* The block displays an identity given by a defined animateKey.
Keyed == phase = "mounted" /\ animateKey # <<>>

\* C1: a block with a fixed animateKey whose content starts empty and then only
\* grows has raised the appearance signal exactly once as soon as its content
\* is non-empty (and not at all before), and raised it on the very update that
\* made the content non-empty.
AppearanceSignalOnce ==
    (Keyed /\ ~hist.rekeyed /\ hist.startedEmpty /\ hist.grew)
        => IF content = ""
           THEN hist.signals = 0
           ELSE hist.signals = 1 /\ hist.onFirstText

\* C1's case: mounted empty under a key, then grown three times ("a", "aa",
\* "aaa").
GrownSignalledOnce ==
    /\ Keyed /\ ~hist.rekeyed /\ hist.startedEmpty /\ hist.grew
    /\ hist.updates >= 3
    /\ hist.signals = 1

\* C2: whenever a mounted block is signalling (isUpdating), it later stops
\* signalling (or is unmounted), given that a pending timer gets to fire.
SignalAutoReverts ==
    [](phase = "mounted" /\ isUpdating
          => <>(~isUpdating \/ phase # "mounted"))

\* C8: under one unchanged animateKey the appearance signal is raised at most
\* once, whatever the content does afterwards.
NoRetrigger == Keyed => hist.signals <= 1

\* C8's case: after the signal the content became empty and then non-empty
\* again, under the same animateKey.
RefilledAfterSignal ==
    Keyed /\ hist.signals = 1 /\ hist.emptied /\ content # ""

\* C9: an identity that a mounted block changed to has raised its own signal
\* exactly once as soon as it has had non-empty text, on the render where its
\* text first was non-empty.
SignalPerNewIdentity ==
    (Keyed /\ hist.rekeyed /\ hist.hadText)
        => hist.signals = 1 /\ hist.onFirstText

(***************************************************************************)
(* FindingsRail                                                            *)
(***************************************************************************)

\* .slice(0, 24)
RailCap == 24

\* Bounds of the inputs.
MaxAgents == 3
MaxTime == 2
BacklogLen == 8
MaxAdded == 2

Timestamps == 0..(MaxTime + 1)

\* An AgentInsight: its id is the agent's id and its 1-based position in the
\* agent's list.
Insight(a, n, t) == [id |-> <<a, n>>, timestamp |-> t]

\* An agent that has already reported k insights, with repeating timestamps.
Backlog(a, k) == [n \in 1..k |-> Insight(a, n, 1 + ((n + a) % MaxTime))]

\* ({ ...insight, agentId: agent.id })
WithAgent(agent, insight) ==
    [id |-> insight.id, timestamp |-> insight.timestamp, agentId |-> agent.id]

\* Object.values(agents).flatMap((agent) => (agent.insights || []).map(...))
RECURSIVE FlatMap(_)
FlatMap(as) ==
    IF as = <<>> THEN <<>>
    ELSE LET agent == Head(as)
         IN  [n \in 1..Len(agent.insights) |-> WithAgent(agent, agent.insights[n])]
             \o FlatMap(Tail(as))

\* Compare with a plausible fault: oldest first.
CompareAscending(a, b) == a.timestamp - b.timestamp

\* Compare with a plausible fault: a comparator that never answers 0.
CompareNeverEqual(a, b) ==
    IF b.timestamp = a.timestamp THEN 1 ELSE b.timestamp - a.timestamp

\* (a, b) => b.timestamp - a.timestamp
Compare(a, b) == b.timestamp - a.timestamp

\* Array.prototype.sort is stable: x goes after every element the comparator
\* does not put behind it.
RECURSIVE InsertSorted(_, _)
InsertSorted(s, x) ==
    IF s = <<>> THEN <<x>>
    ELSE LET last == s[Len(s)]
         IN  IF Compare(last, x) > 0
             THEN Append(InsertSorted(SubSeq(s, 1, Len(s) - 1), x), last)
             ELSE Append(s, x)

RECURSIVE Sort(_)
Sort(s) ==
    IF s = <<>> THEN <<>>
    ELSE InsertSorted(Sort(SubSeq(s, 1, Len(s) - 1)), s[Len(s)])

\* .slice(0, n)
Slice(s, n) == SubSeq(s, 1, Min(n, Len(s)))

\* const insights = Object.values(agents).flatMap(...).sort(...).slice(0, 24)
FindingsRailInsights(as) == Slice(Sort(FlatMap(as)), RailCap)

\* The maps a viewer starts from: the agents in either enumeration order, each
\* with no insight yet or each with a backlog.
InitialAgents ==
    {[i \in 1..MaxAgents |->
        [id |-> (IF up THEN i ELSE MaxAgents + 1 - i),
         insights |-> Backlog(IF up THEN i ELSE MaxAgents + 1 - i, k)]] :
     up \in BOOLEAN, k \in {0, BacklogLen}}

RailInit ==
    /\ agents \in InitialAgents
    /\ added = 0
    /\ insights = FindingsRailInsights(agents)

\* The store appends an insight with timestamp t to the agent at position i
\* of the map and FindingsRail renders again with the new map.
AddInsight(i, t) ==
    /\ added < MaxAdded
    /\ added' = added + 1
    /\ agents' = [agents EXCEPT ![i].insights =
                    Append(@, Insight(agents[i].id, Len(@) + 1, t))]
    /\ insights' = FindingsRailInsights(agents')
    /\ UNCHANGED <<streamVars, chartVars>>

RailNext == \E i \in 1..MaxAgents, t \in Timestamps : AddInsight(i, t)

InitRail == RailInit /\ StreamInit /\ ChartIdle

SpecRail == InitRail /\ [][RailNext]_vars

\* The flattened insights of the map, as a set (ids are unique).
AllInsights ==
    UNION {{[id |-> agents[i].insights[n].id,
             timestamp |-> agents[i].insights[n].timestamp,
             agentId |-> agents[i].id] : n \in 1..Len(agents[i].insights)} :
           i \in 1..Len(agents)}
RailSet == {insights[j] : j \in 1..Len(insights)}

\* C3: the rail holds min(24, total) distinct insights of the map, newest
\* first, and no insight left out is newer than one in the rail.
RailCapAndOrder ==
    /\ Len(insights) = Min(RailCap, Cardinality(AllInsights))
    /\ RailSet \subseteq AllInsights
    /\ Cardinality(RailSet) = Len(insights)
    /\ \A j, k \in 1..Len(insights) :
          j < k => insights[j].timestamp >= insights[k].timestamp
    /\ \A x \in AllInsights \ RailSet, y \in RailSet :
          x.timestamp <= y.timestamp

\* C3's case: more than 24 insights, one appended since, and an insight left
\* out that is strictly older than one in the rail.
RailOverCap ==
    /\ added > 0
    /\ Cardinality(AllInsights) > RailCap
    /\ \E x \in AllInsights \ RailSet, y \in RailSet :
          x.timestamp < y.timestamp

\* The position of an agent in the enumeration of the map.
AgentPos(a) == CHOOSE i \in 1..Len(agents) : agents[i].id = a

RECURSIVE Reverse(_)
Reverse(s) == IF s = <<>> THEN <<>> ELSE Append(Reverse(Tail(s)), Head(s))

\* C4 as stated: insights with equal timestamps come in (runId, seq)
\* descending order, and the rail is the same for the map enumerated in the
\* opposite order.
TieBreakByRunSeq ==
    /\ \A j, k \in 1..Len(insights) :
          (j < k /\ insights[j].timestamp = insights[k].timestamp)
             => \/ insights[j].agentId > insights[k].agentId
                \/ /\ insights[j].agentId = insights[k].agentId
                   /\ insights[j].id[2] > insights[k].id[2]
    /\ insights = FindingsRailInsights(Reverse(agents))

\* C4 as amended: insights with equal timestamps keep the order of the
\* flattened map: the agents' enumeration order, then the position in the
\* agent's list.
TiesKeepMapOrder ==
    \A j, k \in 1..Len(insights) :
        (j < k /\ insights[j].timestamp = insights[k].timestamp)
           => \/ AgentPos(insights[j].agentId) < AgentPos(insights[k].agentId)
              \/ /\ insights[j].agentId = insights[k].agentId
                 /\ insights[j].id[2] < insights[k].id[2]

\* C4's case: the rail is full, an insight was appended, and two insights of
\* different agents and two of one agent tie in the rail.
RailHasTies ==
    /\ added > 0
    /\ Len(insights) = RailCap
    /\ \E j, k \in 1..Len(insights) :
          /\ j < k
          /\ insights[j].timestamp = insights[k].timestamp
          /\ insights[j].agentId # insights[k].agentId
    /\ \E j, k \in 1..Len(insights) :
          /\ j < k
          /\ insights[j].timestamp = insights[k].timestamp
          /\ insights[j].agentId = insights[k].agentId

(***************************************************************************)
(* MiniChart                                                               *)
(***************************************************************************)

\* const width, height, padding
width == 260
height == 140
paddingTop == 14
paddingRight == 10
paddingBottom == 28
paddingLeft == 46
\* const maxTicks = 4
maxTicks == 4

innerWidth == width - paddingLeft - paddingRight
innerHeight == height - paddingTop - paddingBottom

\* Bounds of the inputs.
MaxVal == 1
MaxValues == 3
MaxLongSeries == 12

\* What series.values can hold at run time, as JavaScript values.
Num(i) == [t |-> "number", n |-> i, s |-> ""]
Str(x) == [t |-> "string", n |-> 0, s |-> x]
Other(t) == [t |-> t, n |-> 0, s |-> ""]
RawValues ==
    {Num(i) : i \in 0..MaxVal}
    \cup {Other("NaN"), Other("-Infinity"), Other("null"), Str("1"), Str("x")}

\* A JavaScript number: finite (an integer here), NaN or an infinity.
Fin(i) == [k |-> "fin", n |-> i]
NotFin(k) == [k |-> k, n |-> 0]

\* Number(v)
ToNumber(v) ==
    CASE v.t = "number" -> Fin(v.n)
      [] v.t = "NaN" -> NotFin("nan")
      [] v.t = "Infinity" -> NotFin("inf")
      [] v.t = "-Infinity" -> NotFin("ninf")
      [] v.t = "null" -> Fin(0)
      [] v.t = "undefined" -> NotFin("nan")
      [] v.t = "string" ->
            IF v.s = "" THEN Fin(0)
            ELSE IF \E i \in 0..(MaxVal + 1) : ToString(i) = v.s
                 THEN Fin(CHOOSE i \in 0..(MaxVal + 1) : ToString(i) = v.s)
                 ELSE NotFin("nan")

\* IsFinite with a plausible fault: !Number.isNaN(v).
IsNotNaN(x) == x.k # "nan"

\* Number.isFinite(v)
IsFinite(x) == x.k = "fin"

\* series.values.map((v) => Number(v)).filter((v) => Number.isFinite(v)),
\* as the sequence of the finite numbers
FiniteValues(raw) ==
    LET nums == [i \in 1..Len(raw) |-> ToNumber(raw[i])]
        kept == SelectSeq(nums, IsFinite)
    IN  [i \in 1..Len(kept) |-> kept[i].n]

\* Math.min(...values), Math.max(...values)
MathMin(values) ==
    CHOOSE m \in {values[i] : i \in 1..Len(values)} :
        \A i \in 1..Len(values) : m <= values[i]
MathMax(values) ==
    CHOOSE m \in {values[i] : i \in 1..Len(values)} :
        \A i \in 1..Len(values) : m >= values[i]

\* Span with a plausible fault: the "|| 1" left out.
SpanUnfloored(max, min) == max - min

\* const span = max - min || 1
Span(max, min) == IF max - min # 0 THEN max - min ELSE 1

\* const pts = values.map((v, idx) => ...): each coordinate is kept as the
\* fraction the code divides out, offset by the padding.
Points(values, min, span) ==
    [i \in 1..Len(values) |->
        [v |-> values[i],
         xNum |-> (i - 1) * innerWidth,
         xDen |-> Max(Len(values) - 1, 1),
         yNum |-> (values[i] - min) * innerHeight,
         yDen |-> span]]

\* values.map((_, idx) => `${idx + 1}`)
Ordinals(n) == [i \in 1..n |-> ToString(i)]

\* const xLabels = Array.isArray(chart.labels) &&
\*     chart.labels.length === values.length ? chart.labels : ordinals
XLabels(c, values) ==
    IF c.labelsIsArray /\ Len(c.labels) = Len(values)
    THEN c.labels
    ELSE Ordinals(Len(values))

\* TickStep with a plausible fault: Math.floor for Math.ceil.
TickStepFloor(n) == Max(1, n \div maxTicks)

\* const step = Math.max(1, Math.ceil(xLabels.length / maxTicks))
TickStep(n) == Max(1, (n + maxTicks - 1) \div maxTicks)

\* { idx: i, label: xLabels[i], x }
Tick(xLabels, i) ==
    [idx |-> i,
     label |-> xLabels[i + 1],
     xNum |-> i * innerWidth,
     xDen |-> Max(Len(xLabels) - 1, 1)]

\* for (let i = 0; i < xLabels.length; i += step) ticks.push(...)
RECURSIVE TickLoop(_, _, _)
TickLoop(xLabels, i, step) ==
    IF i < Len(xLabels)
    THEN <<Tick(xLabels, i)>> \o TickLoop(xLabels, i + step, step)
    ELSE <<>>

\* const xTicks = (() => { ... })()
XTicks(xLabels) ==
    LET ticks == TickLoop(xLabels, 0, TickStep(Len(xLabels)))
        \* ticks[ticks.length - 1]?.idx !== xLabels.length - 1
        lastMissing == \/ ticks = <<>>
                       \/ ticks[Len(ticks)].idx # Len(xLabels) - 1
    IN  IF lastMissing
        THEN Append(ticks, Tick(xLabels, Len(xLabels) - 1))
        ELSE ticks

\* What rendering MiniChart comes to: null, the geometry, or the TypeError of
\* reading series.values.map when series.values is no array.
ThrownView == [null |-> FALSE, threw |-> TRUE]

\* if (!series || !Array.isArray(series.values) || series.values.length === 0)
NoSeries(c) == ~c.hasSeries \/ ~c.valuesIsArray \/ Len(c.values) = 0

MiniChart(c) ==
    IF NoSeries(c) THEN NullView
    ELSE IF ~c.hasSeries \/ ~c.valuesIsArray THEN ThrownView
    ELSE LET values == FiniteValues(c.values)
         IN  IF Len(values) = 0 THEN NullView
             ELSE LET min == MathMin(values)
                      max == MathMax(values)
                      span == Span(max, min)
                      xLabels == XLabels(c, values)
                  IN  [null |-> FALSE, threw |-> FALSE,
                       values |-> values,
                       min |-> min, max |-> max, span |-> span,
                       pts |-> Points(values, min, span),
                       xLabels |-> xLabels,
                       xTicks |-> XTicks(xLabels)]

\* chart.labels: missing, or m labels that are not ordinals.
Labels(m) == [i \in 1..m |-> "L" \o ToString(i)]
LabelChoices(maxLen) ==
    {[isArray |-> FALSE, items |-> <<>>]}
    \cup {[isArray |-> TRUE, items |-> Labels(m)] : m \in 0..maxLen}

Chart(hasSeries, isArray, values, labels) ==
    [hasSeries |-> hasSeries, valuesIsArray |-> isArray, values |-> values,
     labelsIsArray |-> labels.isArray, labels |-> labels.items]

\* Every sequence of at most MaxValues raw values.
ShortSeries == UNION {[1..n -> RawValues] : n \in 0..MaxValues}

\* A long series of finite numbers, to get many labels and ticks.
LongSeries(n) == [i \in 1..n |-> Num(i % (MaxVal + 1))]

Charts ==
    {Chart(TRUE, TRUE, vs, ls) :
        vs \in ShortSeries, ls \in LabelChoices(MaxValues + 1)}
    \cup {Chart(TRUE, TRUE, LongSeries(n), ls) :
        n \in 1..MaxLongSeries, ls \in LabelChoices(MaxLongSeries)}
    \cup {Chart(hasSeries, FALSE, <<>>, ls) :
        hasSeries \in BOOLEAN, ls \in LabelChoices(1)}

ChartInit ==
    /\ chart \in Charts
    /\ drawn = FALSE
    /\ view = NullView

\* FindingsRail renders <MiniChart chart={insight.chart} />.
Render ==
    /\ ~drawn
    /\ drawn' = TRUE
    /\ view' = MiniChart(chart)
    /\ UNCHANGED <<chart, streamVars, railVars>>

ChartNext == Render

InitChart == ChartInit /\ StreamInit /\ RailIdle

SpecChart == InitChart /\ [][ChartNext]_vars

Plotted == drawn /\ ~view.null /\ ~view.threw

\* C5: span is max - min of the plotted values when they differ and 1 when
\* they are all equal, and no divisor of a point or tick coordinate is 0.
SpanFloor ==
    Plotted =>
        LET vs == {view.values[i] : i \in 1..Len(view.values)}
        IN  /\ \E hi \in vs, lo \in vs :
                 /\ \A v \in vs : lo <= v /\ v <= hi
                 /\ view.span = (IF hi > lo THEN hi - lo ELSE 1)
            /\ \A i \in 1..Len(view.pts) :
                 view.pts[i].xDen # 0 /\ view.pts[i].yDen # 0
            /\ \A i \in 1..Len(view.xTicks) : view.xTicks[i].xDen # 0

\* C5's case: a series of three equal values (like [5,5,5]) was plotted.
FlatSeriesPlotted ==
    Plotted /\ Len(view.values) = 3 /\ view.max = view.min /\ view.span = 1

\* C6: the labels are chart.labels exactly when that is a sequence as long as
\* series.values, and otherwise the ordinals "1", "2", ... of the plotted
\* values.
LabelFallback ==
    Plotted =>
        view.xLabels =
            IF chart.labelsIsArray /\ Len(chart.labels) = Len(chart.values)
            THEN chart.labels
            ELSE [i \in 1..Len(view.values) |-> ToString(i)]

\* C7: MiniChart returns null, and throws nothing, exactly when there is no
\* first series, or values is no sequence, or no value converts to a finite
\* number; otherwise it plots exactly the finite values, and min and max are
\* among them.
NoChartOutcome ==
    drawn =>
        LET fin == {i \in 1..Len(chart.values) :
                       ToNumber(chart.values[i]).k = "fin"}
            finite == {ToNumber(chart.values[i]).n : i \in fin}
            usable == chart.hasSeries /\ chart.valuesIsArray /\ fin # {}
        IN  /\ ~view.threw
            /\ view.null <=> ~usable
            /\ usable =>
                 /\ Len(view.values) = Cardinality(fin)
                 /\ Len(view.pts) = Cardinality(fin)
                 /\ \A i \in 1..Len(view.pts) : view.pts[i].v \in finite
                 /\ view.min \in finite /\ view.max \in finite
                 /\ \A v \in finite : view.min <= v /\ v <= view.max

\* C7's case: a series of several values, none finite, drew nothing.
AllNonFiniteDrawsNothing ==
    /\ drawn /\ view.null
    /\ chart.hasSeries /\ chart.valuesIsArray /\ Len(chart.values) >= 2

\* C10: the tick indices start at 0, increase strictly, are the multiples of
\* the stride max(1, ceil(n / 4)) below n, at most 4 of them, together with
\* n - 1, which comes last; so at most 5 ticks and none twice.
AxisTicks ==
    Plotted =>
        LET n == Len(view.xLabels)
            t == view.xTicks
            stride == CHOOSE s \in 1..n :
                         /\ maxTicks * s >= n
                         /\ \A r \in 1..(s - 1) : maxTicks * r < n
            strided == {i \in 0..(n - 1) : i % stride = 0}
        IN  /\ n >= 1
            /\ t[1].idx = 0
            /\ \A j \in 1..(Len(t) - 1) : t[j].idx < t[j + 1].idx
            /\ Cardinality(strided) <= maxTicks
            /\ {t[j].idx : j \in 1..Len(t)} = strided \cup {n - 1}
            /\ t[Len(t)].idx = n - 1
            /\ Len(t) <= maxTicks + 1
            /\ \A j \in 1..Len(t) : t[j].label = view.xLabels[t[j].idx + 1]

\* C10's case: four strided ticks and the appended final one.
FiveTicks == Plotted /\ Len(view.xTicks) = 5

====
